---- MODULE Spec2Model ----
(***************************************************************************)
(* State-machine model of PVE_VM_Scripts: main.py (orchestrator and        *)
(* push_image), modules/pve_tools.py (ProxmoxVMManager) and                *)
(* modules/image_manager.py (ImageManager).                                *)
(*                                                                         *)
(* The program is single-threaded.  Each Python frame has its own program  *)
(* counter: pc (main), ppc (push_image), vmpc (create_vm), wpc             *)
(* (_wait_for_task).  A caller sets the callee's counter and resumes when  *)
(* the callee's counter shows a return ("ret") or a raised exception; the  *)
(* callee's locals are dropped when the caller has taken the result.       *)
(* The hypervisor API, the SFTP server, the file system and the clock are  *)
(* the environment; their answers are drawn with \E where the code reads   *)
(* them.                                                                   *)
(***************************************************************************)
EXTENDS Integers, Sequences, FiniteSets, TLC

\* ------------------------------------------------------------------ bounds
MaxVMs == 2        \* longest 'vms' list of a configuration
MaxId == 2         \* VM ids are 1..MaxId
MaxPolls == 3      \* polls of one task that are followed by a plain 1 s sleep
MaxTimeout == 6    \* largest timeout passed to _wait_for_task on its own
MaxLocal == 2      \* most entries of the local image directory
MaxCalls == 3      \* most ImageManager calls of a free-standing client

\* ------------------------------------------------------ program constants
DefaultTimeout == 300   \* _wait_for_task(..., timeout: int = 300)
SleepInterval == 1      \* time.sleep(1)

RequiredFields == {"id", "name", "memory", "cores"}

NoId == 0
Ids == 1..MaxId

\* A VM spec of the 'vms' list: which required keys are present, the id (NoId
\* when the key is absent), the shape of the optional 'disk' block and whether
\* a 'tags' key is present.
VMSpecs ==
    { s \in [fields : SUBSET RequiredFields, id : Ids \cup {NoId},
             disk : {"none", "import_img", "scsi0"}, tags : BOOLEAN] :
        (s.id = NoId) <=> ("id" \notin s.fields) }

NoSpec == [fields |-> {}, id |-> NoId, disk |-> "none", tags |-> FALSE]

\* existing_vms and create_params before create_vm has set them
NoListing == [got |-> FALSE, vmids |-> {}]
NoParams == [vmid |-> NoId, scsi0 |-> "unset"]

SeqsUpTo(S, n) == UNION { [1..k -> S] : k \in 0..n }

Range(s) == { s[k] : k \in 1..Len(s) }

\* Payloads of tasks(upid).status.get()
TaskRunning == [status |-> "running", exitstatus |-> "none"]
TaskOK == [status |-> "stopped", exitstatus |-> "OK"]
TaskErr == [status |-> "stopped", exitstatus |-> "ERROR"]
TaskStatuses == {TaskRunning, TaskOK, TaskErr}

\* File names are a stem and a last dot-part; the name ".iso" is a stem-less
\* one (pathlib gives it no suffix, str.endswith still matches it).
ImageExts == {".img", ".qcow2", ".raw", ".iso"}
FileA == [stem |-> "a", ext |-> ".iso"]
FileB == [stem |-> "b", ext |-> ".QCOW2"]
FileC == [stem |-> "c", ext |-> ".txt"]
FileD == [stem |-> "", ext |-> ".iso"]
Files == {FileA, FileB, FileC, FileD}
NoFile == [stem |-> "", ext |-> ""]

\* str.lower() on the extensions in use
Lower(x) ==
    CASE x = ".ISO" -> ".iso"
      [] x = ".QCOW2" -> ".qcow2"
      [] OTHER -> x

\* pathlib.Path(name).suffix
Suffix(f) == IF f.stem = "" THEN "" ELSE f.ext

\* list_local_images: f.suffix.lower() in ('.img', '.qcow2', '.raw', '.iso')
LocalFilter(f) == Lower(Suffix(f)) \in ImageExts

\* list_remote_images: f.lower().endswith(('.img', '.qcow2', '.raw', '.iso'))
RemoteFilterMutant(f) == f.ext \in ImageExts

RemoteFilter(f) == Lower(f.ext) \in ImageExts

\* Sequences without repetition over S, of length at most n
DistinctSeqs(S, n) ==
    { q \in SeqsUpTo(S, n) : \A a, b \in 1..Len(q) : q[a] = q[b] => a = b }

\* The orders in which a directory listing may enumerate the set S
Listings(S) == { q \in DistinctSeqs(S, Cardinality(S)) : Range(q) = S }

VARIABLES
    \* main / create_all_vms
    pc, exitCode, vms, idx, success, failed, attempted, outcomes,
    \* hypervisor
    existing,
    \* create_vm
    vmpc, vm, calls, existing_vms, create_params, importOutcome, vmRet, vmWhy,
    \* _wait_for_task
    wpc, waitFor, timeout, elapsed, observed, waitRet,
    \* image directories, ImageManager, push_image
    localDir, remote, ssh, sftp, connects, disconnects, lastCall, uploads,
    ppc, local_images, remote_images, new_images, upi, pushErr

mainVars == <<pc, exitCode, vms, idx, success, failed, attempted>>
vmVars == <<vmpc, vm, calls, existing_vms, create_params, importOutcome,
            vmRet, vmWhy, outcomes>>
waitVars == <<wpc, waitFor, timeout, elapsed, observed, waitRet>>
mgrVars == <<remote, ssh, sftp, connects, disconnects, lastCall, uploads>>
pushVars == <<ppc, local_images, remote_images, new_images, upi, pushErr>>
imgVars == <<localDir, remote, ssh, sftp, connects, disconnects, lastCall,
             uploads, ppc, local_images, remote_images, new_images, upi,
             pushErr>>

vars == <<pc, exitCode, vms, idx, success, failed, attempted, outcomes,
          existing,
          vmpc, vm, calls, existing_vms, create_params, importOutcome,
          vmRet, vmWhy,
          wpc, waitFor, timeout, elapsed, observed, waitRet,
          localDir, remote, ssh, sftp, connects, disconnects, lastCall,
          uploads, ppc, local_images, remote_images, new_images, upi,
          pushErr>>

\* ========================================================= _wait_for_task
\* Entry of _wait_for_task(task_upid, timeout): start_time = time.time().
StartWait(who, t) ==
    /\ wpc' = "check"
    /\ waitFor' = who
    /\ timeout' = t
    /\ elapsed' = 0
    /\ observed' = <<>>
    /\ waitRet' = FALSE

\* The caller has taken the result: the frame of _wait_for_task is gone.
EndWait ==
    /\ wpc' = "idle"
    /\ waitFor' = "none"
    /\ timeout' = 0
    /\ elapsed' = 0
    /\ observed' = <<>>
    /\ waitRet' = FALSE

\* while time.time() - start_time < timeout: true branch, the poll is issued.
WaitLoopEnter ==
    /\ wpc = "check"
    /\ elapsed < timeout
    /\ wpc' = "poll"
    /\ UNCHANGED <<waitFor, timeout, elapsed, observed, waitRet>>

\* Loop condition false: logger.error("Task timeout"); return False.
WaitTimeout ==
    /\ wpc = "check"
    /\ ~(elapsed < timeout)
    /\ wpc' = "ret"
    /\ waitRet' = FALSE
    /\ UNCHANGED <<waitFor, timeout, elapsed, observed>>

\* The poll answers status 'stopped', exitstatus 'OK': return True.
PollStoppedOKMutant ==
    /\ wpc = "poll"
    /\ observed' = Append(observed, [at |-> elapsed, st |-> TaskOK])
    /\ wpc' = "ret"
    /\ waitRet' = FALSE
    /\ UNCHANGED <<waitFor, timeout, elapsed>>

PollStoppedOK ==
    /\ wpc = "poll"
    /\ observed' = Append(observed, [at |-> elapsed, st |-> TaskOK])
    /\ wpc' = "ret"
    /\ waitRet' = TRUE
    /\ UNCHANGED <<waitFor, timeout, elapsed>>

\* The poll answers 'stopped' with another exit status: log, return False.
PollStoppedErr ==
    /\ wpc = "poll"
    /\ observed' = Append(observed, [at |-> elapsed, st |-> TaskErr])
    /\ wpc' = "ret"
    /\ waitRet' = FALSE
    /\ UNCHANGED <<waitFor, timeout, elapsed>>

\* The poll answers 'running': time.sleep(1), back to the loop test.  The
\* sleep and the request take at least SleepInterval: either just that (at
\* most MaxPolls times per task) or long enough to use up the timeout.
PollRunning ==
    /\ wpc = "poll"
    /\ observed' = Append(observed, [at |-> elapsed, st |-> TaskRunning])
    /\ \/ /\ Len(observed) < MaxPolls
          /\ elapsed' = elapsed + SleepInterval
       \/ elapsed' = elapsed + timeout
    /\ wpc' = "check"
    /\ UNCHANGED <<waitFor, timeout, waitRet>>

\* status.get() raises: the exception leaves _wait_for_task.
PollRaises ==
    /\ wpc = "poll"
    /\ wpc' = "raised"
    /\ UNCHANGED <<waitFor, timeout, elapsed, observed, waitRet>>

wait_for_task ==
    /\ \/ WaitLoopEnter
       \/ WaitTimeout
       \/ PollStoppedOK
       \/ PollStoppedErr
       \/ PollRunning
       \/ PollRaises
    /\ UNCHANGED mainVars
    /\ UNCHANGED vmVars
    /\ UNCHANGED imgVars
    /\ existing' = IF waitFor = "create" /\ wpc' = "ret" /\ waitRet'
                   THEN existing \cup {vm.id} ELSE existing

\* ============================================================= create_vm
\* A return statement of create_vm; 'outcomes' records every returned value.
ReturnVM(val, why) ==
    /\ vmpc' = "ret"
    /\ vmRet' = val
    /\ vmWhy' = why
    /\ outcomes' = Append(outcomes, val)

\* _validate_vm_config(vm_config), given the listing qemu.get() returned and
\* whether the image file of an import request exists.  The result is the
\* check that ends it: "KeyError" when vm_config['id'] is read and absent.
validate_vm_config_mutant(vm_config, listing, img_exists) ==
    IF vm_config.fields # RequiredFields
    THEN "missing"
    ELSE IF vm_config.disk = "import_img" /\ ~img_exists
    THEN "noimage"
    ELSE "ok"

validate_vm_config(vm_config, listing, img_exists) ==
    IF listing # {} /\ "id" \notin vm_config.fields
    THEN "KeyError"
    ELSE IF \E vmid \in listing : vmid = vm_config.id
    THEN "duplicate"
    ELSE IF vm_config.fields # RequiredFields
    THEN "missing"
    ELSE IF vm_config.disk = "import_img" /\ ~img_exists
    THEN "noimage"
    ELSE "ok"

\* create_vm: 'if not self._validate_vm_config(vm_config): return False'.
\* The VM listing request is the first statement of the validation.
ValidateListingRaises ==
    /\ vmpc = "validate"
    /\ calls' = Append(calls, "qemu.get")
    /\ ReturnVM(FALSE, "exception")
    /\ UNCHANGED <<vm, existing_vms, create_params, importOutcome>>
    /\ UNCHANGED waitVars

ValidateVM ==
    /\ vmpc = "validate"
    /\ calls' = Append(calls, "qemu.get")
    /\ existing_vms' = [got |-> TRUE, vmids |-> existing]
    /\ \E img_exists \in BOOLEAN :
         LET v == validate_vm_config(vm, existing, img_exists) IN
           CASE v = "ok" ->
                  /\ vmpc' = "prepare"
                  /\ UNCHANGED <<vmRet, vmWhy, outcomes>>
             [] v = "KeyError" -> ReturnVM(FALSE, "exception")
             [] OTHER -> ReturnVM(FALSE, v)
    /\ UNCHANGED <<vm, create_params, importOutcome>>
    /\ UNCHANGED waitVars

\* _prepare_create_params: vmid, name, memory, cores, net0 are always set;
\* only the keys the model follows are kept: vmid and the origin of scsi0.
CreateParams(vm_config, scsi0) == [vmid |-> vm_config.id, scsi0 |-> scsi0]

\* _prepare_create_params without an import: no 'disk' key, or a 'disk' block
\* naming an existing volume ('scsi0'), passed through.
PrepareNoImport ==
    /\ vmpc = "prepare"
    /\ vm.disk # "import_img"
    /\ create_params' =
         CreateParams(vm, IF vm.disk = "scsi0" THEN "direct" ELSE "absent")
    /\ vmpc' = "create"
    /\ UNCHANGED <<vm, calls, existing_vms, importOutcome, vmRet, vmWhy,
                   outcomes>>
    /\ UNCHANGED waitVars

\* _import_disk_image: importdisk.create(...) raises; the except clause
\* returns None, _prepare_disk_params returns {} and create_params is left
\* without scsi0.
ImportRaises ==
    /\ vmpc = "prepare"
    /\ vm.disk = "import_img"
    /\ calls' = Append(calls, "importdisk.create")
    /\ importOutcome' = "raised"
    /\ create_params' = CreateParams(vm, "absent")
    /\ vmpc' = "create"
    /\ UNCHANGED <<vm, existing_vms, vmRet, vmWhy, outcomes>>
    /\ UNCHANGED waitVars

\* importdisk.create(...) returns a task; _wait_for_task(result).
ImportSubmit ==
    /\ vmpc = "prepare"
    /\ vm.disk = "import_img"
    /\ calls' = Append(calls, "importdisk.create")
    /\ vmpc' = "import_wait"
    /\ StartWait("import", DefaultTimeout)
    /\ UNCHANGED <<vm, existing_vms, create_params, importOutcome, vmRet,
                   vmWhy, outcomes>>

\* _wait_for_task returned False or raised: _import_disk_image returns None.
ImportTaskFailed ==
    /\ vmpc = "import_wait"
    /\ waitFor = "import"
    /\ \/ wpc = "ret" /\ ~waitRet
       \/ wpc = "raised"
    /\ importOutcome' =
         IF wpc = "raised" THEN "raised"
         ELSE IF observed # <<>> /\ observed[Len(observed)].st = TaskErr
              THEN "taskfailed" ELSE "timeout"
    /\ create_params' = CreateParams(vm, "absent")
    /\ vmpc' = "create"
    /\ EndWait
    /\ UNCHANGED <<vm, calls, existing_vms, vmRet, vmWhy, outcomes>>

\* _wait_for_task returned True: qemu(vmid).config.get() and the search for
\* a key starting with 'unused'.
ImportTaskOK ==
    /\ vmpc = "import_wait"
    /\ waitFor = "import"
    /\ wpc = "ret" /\ waitRet
    /\ calls' = Append(calls, "config.get")
    /\ \E r \in {"unused", "nodisk", "raised"} :
         /\ importOutcome' = IF r = "unused" THEN "ok" ELSE r
         /\ create_params' =
              CreateParams(vm, IF r = "unused" THEN "imported" ELSE "absent")
    /\ vmpc' = "create"
    /\ EndWait
    /\ UNCHANGED <<vm, existing_vms, vmRet, vmWhy, outcomes>>

\* 'if not create_params: return False' never fires (vmid is always set);
\* qemu.create(**create_params) raises: except clause, return False.
CreateRaises ==
    /\ vmpc = "create"
    /\ calls' = Append(calls, "qemu.create")
    /\ ReturnVM(FALSE, "exception")
    /\ UNCHANGED <<vm, existing_vms, create_params, importOutcome>>
    /\ UNCHANGED waitVars

\* qemu.create(**create_params) returns a task; _wait_for_task(result).
CreateSubmit ==
    /\ vmpc = "create"
    /\ calls' = Append(calls, "qemu.create")
    /\ vmpc' = "create_wait"
    /\ StartWait("create", DefaultTimeout)
    /\ UNCHANGED <<vm, existing_vms, create_params, importOutcome, vmRet,
                   vmWhy, outcomes>>

CreateTaskFailedMutant ==
    /\ vmpc = "create_wait"
    /\ waitFor = "create"
    /\ \/ wpc = "ret" /\ ~waitRet
       \/ wpc = "raised"
    /\ vmpc' = "post"
    /\ EndWait
    /\ UNCHANGED <<vm, calls, existing_vms, create_params, importOutcome,
                   vmRet, vmWhy, outcomes>>

\* 'if not self._wait_for_task(result): return False', or the poll raised
\* and the except clause of create_vm returns False.
CreateTaskFailed ==
    /\ vmpc = "create_wait"
    /\ waitFor = "create"
    /\ \/ wpc = "ret" /\ ~waitRet
       \/ wpc = "raised"
    /\ ReturnVM(FALSE, IF wpc = "raised" THEN "exception" ELSE "task")
    /\ EndWait
    /\ UNCHANGED <<vm, calls, existing_vms, create_params, importOutcome>>

\* The create task ended OK: _apply_post_create_config(vm_config) follows.
CreateTaskOK ==
    /\ vmpc = "create_wait"
    /\ waitFor = "create"
    /\ wpc = "ret" /\ waitRet
    /\ vmpc' = "post"
    /\ EndWait
    /\ UNCHANGED <<vm, calls, existing_vms, create_params, importOutcome,
                   vmRet, vmWhy, outcomes>>

\* _apply_post_create_config: config.put(tags=...) only with a 'tags' key;
\* returns True, or False when the request raises.
PostCreate ==
    /\ vmpc = "post"
    /\ IF vm.tags
       THEN /\ calls' = Append(calls, "config.put")
            /\ \/ ReturnVM(TRUE, "created")
               \/ ReturnVM(FALSE, "postconfig")
       ELSE /\ UNCHANGED calls
            /\ ReturnVM(TRUE, "created")
    /\ UNCHANGED <<vm, existing_vms, create_params, importOutcome>>
    /\ UNCHANGED waitVars

create_vm ==
    /\ \/ ValidateListingRaises
       \/ ValidateVM
       \/ PrepareNoImport
       \/ ImportRaises
       \/ ImportSubmit
       \/ ImportTaskFailed
       \/ ImportTaskOK
       \/ CreateRaises
       \/ CreateSubmit
       \/ CreateTaskFailed
       \/ CreateTaskOK
       \/ PostCreate
    /\ UNCHANGED mainVars
    /\ UNCHANGED existing
    /\ UNCHANGED imgVars

\* ========================================================== ImageManager
NoCall == [n |-> 0, op |-> "none", file |-> NoFile, ok |-> FALSE,
           raised |-> FALSE, why |-> "none", listing |-> <<>>]

\* The outcome of a method call as its caller sees it.
Call(op, f, ok, raised, why, listing) ==
    [n |-> lastCall.n + 1, op |-> op, file |-> f, ok |-> ok,
     raised |-> raised, why |-> why, listing |-> listing]

\* connect(): SSHClient(), ssh.connect(...), ssh.open_sftp(); every exception
\* is caught and turned into False.
connect ==
    /\ connects' = connects + 1
    /\ \E r \in {"ok", "ssh_fail", "sftp_fail"} :
         /\ ssh' = IF r = "ssh_fail" THEN "unconnected" ELSE "connected"
         /\ sftp' = IF r = "ok" THEN "open" ELSE sftp
         /\ lastCall' = Call("connect", NoFile, r = "ok", FALSE, r, <<>>)
    /\ UNCHANGED <<remote, disconnects, uploads>>

\* disconnect(): 'if self.sftp: self.sftp.close()', 'if self.ssh:
\* self.ssh.close()'.
disconnect_mutant ==
    /\ disconnects' = disconnects + 1
    /\ sftp' = IF sftp = "None" THEN "None" ELSE "closed"
    /\ ssh' = IF sftp = "None" THEN ssh ELSE "closed"
    /\ lastCall' = Call("disconnect", NoFile, TRUE, FALSE, "ok", <<>>)
    /\ UNCHANGED <<remote, connects, uploads>>

disconnect ==
    /\ disconnects' = disconnects + 1
    /\ sftp' = IF sftp = "None" THEN "None" ELSE "closed"
    /\ ssh' = IF ssh = "None" THEN "None" ELSE "closed"
    /\ lastCall' = Call("disconnect", NoFile, TRUE, FALSE, "ok", <<>>)
    /\ UNCHANGED <<remote, connects, uploads>>

\* list_remote_images(): without an sftp object the ConnectionError it raises
\* is caught by its own except clause, which logs and returns [].
ListRemoteNotConnected ==
    /\ sftp = "None"
    /\ lastCall' = Call("list_remote_images", NoFile, FALSE, FALSE,
                        "notconnected", <<>>)
    /\ UNCHANGED <<remote, ssh, sftp, connects, disconnects, uploads>>

\* sftp.listdir raises (always on a closed channel): logged, [] returned.
ListRemoteFails ==
    /\ sftp # "None"
    /\ lastCall' = Call("list_remote_images", NoFile, FALSE, FALSE,
                        "error", <<>>)
    /\ UNCHANGED <<remote, ssh, sftp, connects, disconnects, uploads>>

\* sftp.listdir answers, in some order; the extension filter is applied.
ListRemoteOK ==
    /\ sftp = "open"
    /\ \E files \in Listings(remote) :
         lastCall' = Call("list_remote_images", NoFile, TRUE, FALSE, "ok",
                          SelectSeq(files, RemoteFilter))
    /\ UNCHANGED <<remote, ssh, sftp, connects, disconnects, uploads>>

\* One upload_image call as 'uploads' records it.
Upload(f, ok, put, why, after) ==
    /\ uploads' = Append(uploads, [file |-> f, ok |-> ok, put |-> put,
                                   before |-> remote, after |-> after])
    /\ remote' = after
    /\ lastCall' = Call("upload_image", f, ok, FALSE, why, <<>>)
    /\ UNCHANGED <<ssh, sftp, connects, disconnects>>

\* upload_image(filename, callback): every exception, its own ConnectionError
\* and FileNotFoundError included, ends in 'return False'.
upload_image(f) ==
    IF sftp = "None"
    THEN Upload(f, FALSE, FALSE, "notconnected", remote)
    ELSE IF f \notin Range(localDir)
    THEN Upload(f, FALSE, FALSE, "nolocal", remote)
    ELSE IF sftp # "open"
    THEN Upload(f, FALSE, FALSE, "error", remote)
    ELSE \* sftp.stat(remote_file) raises something else than FileNotFoundError
         \/ Upload(f, FALSE, FALSE, "error", remote)
         \* sftp.stat succeeds: the file exists, warning, return False
         \/ /\ f \in remote
            /\ Upload(f, FALSE, FALSE, "exists", remote)
         \* sftp.put completes
         \/ /\ f \notin remote
            /\ Upload(f, TRUE, TRUE, "ok", remote \cup {f})
         \* sftp.put raises, with or without a partial remote file
         \/ /\ f \notin remote
            /\ \E partial \in BOOLEAN :
                 Upload(f, FALSE, TRUE, "error",
                        IF partial THEN remote \cup {f} ELSE remote)

\* ============================================================ push_image
\* ImageManager.from_yaml raises (no sshcfg host, user or password, or an
\* unreadable file): caught by the except clause of push_image.
FromYamlFails ==
    /\ ppc = "from_yaml"
    /\ ppc' = "except"
    /\ UNCHANGED <<local_images, remote_images, new_images, upi, pushErr>>
    /\ UNCHANGED mgrVars

FromYamlOK ==
    /\ ppc = "from_yaml"
    /\ ppc' = "enter"
    /\ UNCHANGED <<local_images, remote_images, new_images, upi, pushErr>>
    /\ UNCHANGED mgrVars

\* 'with manager:' -> __enter__: self.connect(), its result is not looked at.
Enter ==
    /\ ppc = "enter"
    /\ connect
    /\ ppc' = "list_local"
    /\ UNCHANGED <<local_images, remote_images, new_images, upi, pushErr>>

\* list_local_images(): the names of the directory entries whose suffix is an
\* image suffix, in directory order; [] when the directory cannot be read.
list_local_images(dir) == SelectSeq(dir, LocalFilter)

ListLocal ==
    /\ ppc = "list_local"
    /\ \/ local_images' = list_local_images(localDir)
       \/ local_images' = <<>>
    /\ ppc' = "list_remote"
    /\ UNCHANGED <<remote_images, new_images, upi, pushErr>>
    /\ UNCHANGED mgrVars

\* remote_images = manager.list_remote_images()
ListRemote ==
    /\ ppc = "list_remote"
    /\ \/ ListRemoteNotConnected
       \/ ListRemoteFails
       \/ ListRemoteOK
    /\ IF lastCall'.raised
       THEN ppc' = "exit_exc" /\ UNCHANGED remote_images
       ELSE ppc' = "diff" /\ remote_images' = lastCall'.listing
    /\ UNCHANGED <<local_images, new_images, upi, pushErr>>

\* [img for img in local_images if img not in remote_images]
diff_mutant(local, rem) == SelectSeq(local, LAMBDA img : img \in Range(rem))

diff(local, rem) == SelectSeq(local, LAMBDA img : img \notin Range(rem))

\* new_images = [...]; 'if not new_images: return' leaves the with block.
Diff ==
    /\ ppc = "diff"
    /\ new_images' = diff(local_images, remote_images)
    /\ upi' = 1
    /\ ppc' = IF new_images' = <<>> THEN "exit" ELSE "upload"
    /\ UNCHANGED <<local_images, remote_images, pushErr>>
    /\ UNCHANGED mgrVars

\* for i, image in enumerate(new_images, 1): manager.upload_image(image, ...)
\* The returned value is dropped.
UploadNextMutant ==
    /\ ppc = "upload"
    /\ upi <= Len(new_images)
    /\ upload_image(new_images[upi])
    /\ upi' = upi + 1
    /\ ppc' = IF lastCall'.ok THEN "upload" ELSE "exit"
    /\ UNCHANGED <<local_images, remote_images, new_images, pushErr>>

UploadNext ==
    /\ ppc = "upload"
    /\ upi <= Len(new_images)
    /\ upload_image(new_images[upi])
    /\ upi' = upi + 1
    /\ UNCHANGED <<ppc, local_images, remote_images, new_images, pushErr>>

UploadsDone ==
    /\ ppc = "upload"
    /\ upi > Len(new_images)
    /\ ppc' = "exit"
    /\ UNCHANGED <<local_images, remote_images, new_images, upi, pushErr>>
    /\ UNCHANGED mgrVars

\* Leaving the with block, by return, by falling off its end or by an
\* exception: __exit__ -> self.disconnect(); __exit__ returns None, so an
\* exception goes on to the except clause.
Exit ==
    /\ ppc \in {"exit", "exit_exc"}
    /\ disconnect
    /\ ppc' = IF ppc = "exit_exc" THEN "except" ELSE "done"
    /\ UNCHANGED <<local_images, remote_images, new_images, upi, pushErr>>

\* except Exception as e: logger.error(f"Error: {str(e)}")
Except ==
    /\ ppc = "except"
    /\ pushErr' = TRUE
    /\ ppc' = "done"
    /\ UNCHANGED <<local_images, remote_images, new_images, upi>>
    /\ UNCHANGED mgrVars

push_image ==
    /\ \/ FromYamlFails
       \/ FromYamlOK
       \/ Enter
       \/ ListLocal
       \/ ListRemote
       \/ Diff
       \/ UploadNext
       \/ UploadsDone
       \/ Exit
       \/ Except
    /\ UNCHANGED localDir
    /\ UNCHANGED <<mainVars, vmVars, waitVars, existing>>

\* ------------------------------------------- ImageManager used on its own
ApiConnect ==
    /\ ssh = "None"
    /\ connect

ApiDisconnect ==
    /\ lastCall.op # "disconnect"
    /\ disconnect

ApiListRemote ==
    \/ ListRemoteNotConnected
    \/ ListRemoteFails
    \/ ListRemoteOK

ApiUpload == \E f \in Files : upload_image(f)

image_manager ==
    /\ ppc = "api"
    /\ lastCall.n < MaxCalls
    /\ \/ ApiConnect
       \/ ApiDisconnect
       \/ ApiListRemote
       \/ ApiUpload
    /\ UNCHANGED <<localDir, pushVars>>
    /\ UNCHANGED <<mainVars, vmVars, waitVars, existing>>

\* ================================================================== main
RequiredSections == {"proxmox", "storage", "vms"}

\* The VM specs configurations are drawn from: complete specs, with any id,
\* tags and no disk, or with id 1 and a disk to import; and one spec without
\* a name.
ConfigSpecs ==
    { s \in VMSpecs :
        \/ /\ s.fields = RequiredFields
           /\ \/ s.disk = "none" /\ s.tags
              \/ s.disk = "import_img" /\ ~s.tags /\ s.id = 1
        \/ /\ s.fields = RequiredFields \ {"name"}
           /\ s.id = 1 /\ s.disk = "none" /\ ~s.tags }

Configs ==
    [sections : {RequiredSections, RequiredSections \ {"storage"}},
     vms : SeqsUpTo(ConfigSpecs, MaxVMs)]

\* _validate_config(config): the three sections, and the four required
\* fields in every entry of 'vms'.
validate_config_mutant(config) == RequiredSections \subseteq config.sections

validate_config(config) ==
    /\ RequiredSections \subseteq config.sections
    /\ \A k \in 1..Len(config.vms) :
         RequiredFields \subseteq config.vms[k].fields

\* sys.exit(code)
SysExit(code) ==
    /\ pc' = "exited"
    /\ exitCode' = code

\* main: 'if not config_path.exists(): ... sys.exit(1)'
MainNoConfigFile ==
    /\ pc = "start"
    /\ SysExit(1)
    /\ UNCHANGED <<vms, idx, success, failed, attempted>>
    /\ UNCHANGED <<ppc, local_images, remote_images, new_images, upi>>

\* ProxmoxVMManager.__init__ -> _load_config: a file that cannot be parsed
\* or does not validate ends the process with status 1.
LoadConfigFails ==
    /\ pc = "start"
    /\ \/ TRUE
       \/ \E config \in Configs : ~validate_config(config)
    /\ SysExit(1)
    /\ UNCHANGED <<vms, idx, success, failed, attempted>>
    /\ UNCHANGED <<ppc, local_images, remote_images, new_images, upi>>

LoadConfigOK ==
    /\ pc = "start"
    /\ \E config \in Configs :
         /\ validate_config(config)
         /\ vms' = config.vms
    /\ pc' = "connect"
    /\ UNCHANGED <<exitCode, idx, success, failed, attempted>>
    /\ UNCHANGED <<ppc, local_images, remote_images, new_images, upi>>

\* _connect_proxmox: ProxmoxAPI(...) raises -> sys.exit(1)
ConnectProxmoxFails ==
    /\ pc = "connect"
    /\ SysExit(1)
    /\ UNCHANGED <<vms, idx, success, failed, attempted>>
    /\ UNCHANGED <<ppc, local_images, remote_images, new_images, upi>>

\* The manager is built; main goes on to push_image(config_path).
ConnectProxmoxOK ==
    /\ pc = "connect"
    /\ pc' = "push"
    /\ ppc' = "from_yaml"
    /\ UNCHANGED <<exitCode, vms, idx, success, failed, attempted>>
    /\ UNCHANGED <<local_images, remote_images, new_images, upi>>

\* push_image returned; vm_manager.create_all_vms() starts: success = 0,
\* failed = 0.
CreateAllStart ==
    /\ pc = "push"
    /\ ppc = "done"
    /\ ppc' = "returned"
    /\ pc' = "loop"
    /\ idx' = 0
    /\ success' = 0
    /\ failed' = 0
    /\ local_images' = <<>>
    /\ remote_images' = <<>>
    /\ new_images' = <<>>
    /\ upi' = 0
    /\ UNCHANGED <<exitCode, vms, attempted>>

\* for idx, vm_config in enumerate(self.config['vms'], 1): the log line reads
\* vm_config['name'] and vm_config['id'] outside any try; then
\* self.create_vm(vm_config) is called.
CallCreateVM(k) ==
    /\ vmpc' = "validate"
    /\ vm' = vms[k]
    /\ calls' = <<>>
    /\ existing_vms' = NoListing
    /\ create_params' = NoParams
    /\ importOutcome' = "none"
    /\ vmRet' = FALSE
    /\ vmWhy' = "none"

\* create_all_vms has taken the result: the frame of create_vm is gone.
EndCreateVM ==
    /\ vmpc' = "idle"
    /\ vm' = NoSpec
    /\ calls' = <<>>
    /\ existing_vms' = NoListing
    /\ create_params' = NoParams
    /\ importOutcome' = "none"
    /\ vmRet' = FALSE
    /\ vmWhy' = "none"

CreateAllNext ==
    /\ pc = "loop"
    /\ vmpc = "idle"
    /\ idx < Len(vms)
    /\ idx' = idx + 1
    /\ IF {"name", "id"} \subseteq vms[idx + 1].fields
       THEN /\ CallCreateVM(idx + 1)
            /\ attempted' = Append(attempted, idx + 1)
            /\ UNCHANGED <<pc, exitCode>>
       ELSE \* KeyError leaves create_all_vms and main: traceback, status 1
            /\ pc' = "crashed"
            /\ exitCode' = 1
            /\ UNCHANGED <<attempted, vmpc, vm, calls, existing_vms,
                           create_params, importOutcome, vmRet, vmWhy>>
    /\ UNCHANGED <<vms, success, failed, outcomes>>
    /\ UNCHANGED <<ppc, local_images, remote_images, new_images, upi>>

\* 'if self.create_vm(vm_config): success += 1 / else: failed += 1'
CreateAllCountMutant ==
    /\ pc = "loop"
    /\ vmpc = "ret"
    /\ success' = success + 1
    /\ UNCHANGED failed
    /\ EndCreateVM
    /\ UNCHANGED <<pc, exitCode, vms, idx, attempted, outcomes>>
    /\ UNCHANGED <<ppc, local_images, remote_images, new_images, upi>>

CreateAllCount ==
    /\ pc = "loop"
    /\ vmpc = "ret"
    /\ IF vmRet
       THEN success' = success + 1 /\ UNCHANGED failed
       ELSE failed' = failed + 1 /\ UNCHANGED success
    /\ EndCreateVM
    /\ UNCHANGED <<pc, exitCode, vms, idx, attempted, outcomes>>
    /\ UNCHANGED <<ppc, local_images, remote_images, new_images, upi>>

CreateAllReturnMutant ==
    /\ pc = "loop"
    /\ vmpc = "idle"
    /\ idx = Len(vms)
    /\ SysExit(IF failed > 0 \/ pushErr \/ sftp = "None" THEN 1 ELSE 0)
    /\ UNCHANGED <<vms, idx, success, failed, attempted>>
    /\ UNCHANGED vmVars
    /\ UNCHANGED <<ppc, local_images, remote_images, new_images, upi>>

\* 'return success, failed', then main: sys.exit(1 if failed > 0 else 0)
CreateAllReturn ==
    /\ pc = "loop"
    /\ vmpc = "idle"
    /\ idx = Len(vms)
    /\ SysExit(IF failed > 0 THEN 1 ELSE 0)
    /\ UNCHANGED <<vms, idx, success, failed, attempted>>
    /\ UNCHANGED vmVars
    /\ UNCHANGED <<ppc, local_images, remote_images, new_images, upi>>

main ==
    /\ \/ /\ \/ MainNoConfigFile
             \/ LoadConfigFails
             \/ LoadConfigOK
             \/ ConnectProxmoxFails
             \/ ConnectProxmoxOK
             \/ CreateAllStart
          /\ UNCHANGED vmVars
       \/ CreateAllNext
       \/ CreateAllCount
       \/ CreateAllReturn
    /\ UNCHANGED <<existing, waitVars>>
    /\ UNCHANGED <<localDir, mgrVars, pushErr>>

\* ------------------------------------------------------------------------
IdleMain ==
    /\ pc = "unit" /\ exitCode = -1 /\ vms = <<>> /\ idx = 0
    /\ success = 0 /\ failed = 0 /\ attempted = <<>> /\ outcomes = <<>>

IdleVM ==
    /\ vmpc = "idle" /\ vm = NoSpec /\ calls = <<>> /\ existing_vms = NoListing
    /\ create_params = NoParams /\ importOutcome = "none"
    /\ vmRet = FALSE /\ vmWhy = "none"

IdleWait ==
    /\ wpc = "idle" /\ waitFor = "none" /\ timeout = 0
    /\ elapsed = 0 /\ observed = <<>> /\ waitRet = FALSE

IdleManager ==
    /\ ssh = "None" /\ sftp = "None" /\ connects = 0 /\ disconnects = 0
    /\ lastCall = NoCall /\ uploads = <<>>

IdlePush ==
    /\ local_images = <<>> /\ remote_images = <<>> /\ new_images = <<>>
    /\ upi = 0 /\ pushErr = FALSE

NoImages ==
    /\ localDir = <<>> /\ remote = {}
    /\ IdleManager /\ IdlePush /\ ppc = "idle"

\* _wait_for_task called on its own with a timeout of the caller's choice.
InitWait ==
    /\ IdleMain /\ IdleVM /\ NoImages
    /\ existing = {}
    /\ wpc = "check" /\ waitFor = "unit"
    /\ timeout \in 0..MaxTimeout
    /\ elapsed = 0 /\ observed = <<>> /\ waitRet = FALSE

NextWait == wait_for_task

SpecWait == InitWait /\ [][NextWait]_vars

\* create_vm called on its own with any VM spec, against any set of VMs
\* already on the node.
InitCreateVM ==
    /\ IdleMain /\ NoImages
    /\ existing \in SUBSET Ids
    /\ vmpc = "validate" /\ vm \in VMSpecs /\ calls = <<>>
    /\ existing_vms = NoListing /\ create_params = NoParams
    /\ importOutcome = "none" /\ vmRet = FALSE /\ vmWhy = "none"
    /\ IdleWait

NextCreateVM == create_vm \/ wait_for_task

SpecCreateVM == InitCreateVM /\ [][NextCreateVM]_vars

\* push_image called on its own, with any local directory and any remote one.
InitPush ==
    /\ IdleMain /\ IdleVM /\ IdleWait
    /\ existing = {}
    /\ localDir \in DistinctSeqs(Files, MaxLocal)
    /\ remote \in SUBSET Files
    /\ IdleManager /\ IdlePush
    /\ ppc = "from_yaml"

NextPush == push_image

SpecPush == InitPush /\ [][NextPush]_vars

\* An ImageManager object used by a client of its own.
InitImage ==
    /\ IdleMain /\ IdleVM /\ IdleWait
    /\ existing = {}
    /\ localDir \in DistinctSeqs(Files, MaxLocal)
    /\ remote \in SUBSET Files
    /\ IdleManager /\ IdlePush
    /\ ppc = "api"

NextImage == image_manager

SpecImage == InitImage /\ [][NextImage]_vars

\* The whole program: main() from its first line, on a node that is empty or
\* holds VM 1, and with one local image that may or may not be on the remote
\* side already.
Init ==
    /\ pc = "start" /\ exitCode = -1 /\ vms = <<>> /\ idx = 0
    /\ success = 0 /\ failed = 0 /\ attempted = <<>> /\ outcomes = <<>>
    /\ IdleVM /\ IdleWait
    /\ existing \in {{}, {1}}
    /\ localDir = <<FileA>>
    /\ remote \in {{}, {FileA}}
    /\ IdleManager /\ IdlePush
    /\ ppc = "idle"

Next == main \/ push_image \/ create_vm \/ wait_for_task

Spec == Init /\ [][Next]_vars

\* ======================================================================
\* Properties
\* ======================================================================
Failures(results) == { k \in 1..Len(results) : ~results[k] }

\* create_all_vms has returned and main has called sys.exit
CreateAllReturned == pc = "exited" /\ ppc = "returned"

\* C1: over N specs of which exactly K create_vm calls returned failure,
\* create_all_vms returns (N-K, K), so success + failed = N, and the exit
\* status main sets is 1 if and only if K > 0.
C1_CountsAndExitStatus ==
    CreateAllReturned =>
        LET N == Len(vms)
            K == Cardinality(Failures(outcomes))
        IN /\ success = N - K
           /\ failed = K
           /\ success + failed = N
           /\ exitCode \in {0, 1}
           /\ (exitCode = 1) <=> (K > 0)

C1_Witness ==
    /\ CreateAllReturned
    /\ Len(vms) = 2
    /\ Cardinality(Failures(outcomes)) = 1
    /\ success = 1 /\ failed = 1 /\ exitCode = 1

\* C2: create_all_vms calls create_vm for every spec exactly once and in
\* list order; whatever makes one create_vm fail, the later specs are still
\* attempted and no exception leaves create_all_vms.
C2_EverySpecAttemptedInOrder ==
    /\ pc # "crashed"
    /\ Len(attempted) = idx
    /\ \A k \in 1..Len(attempted) : attempted[k] = k
    /\ (pc = "loop" /\ vmpc # "idle") => vm = vms[idx]
    /\ Len(outcomes) \in {idx - 1, idx} \cap Nat
    /\ (pc = "loop" /\ vmpc = "idle") => Len(outcomes) = idx
    /\ CreateAllReturned =>
         /\ Len(attempted) = Len(vms)
         /\ Len(outcomes) = Len(vms)

C2_Witness ==
    /\ CreateAllReturned
    /\ Len(vms) = 2
    /\ attempted = <<1, 2>>
    /\ outcomes = <<FALSE, TRUE>>

\* C3: when the id of the spec is the vmid of a VM in the listing the node
\* returned, create_vm returns failure and qemu.create is never called.
C3_DuplicateIdNeverCreated ==
    (existing_vms.got /\ vm.id \in existing_vms.vmids) =>
        /\ vmpc = "ret"
        /\ ~vmRet
        /\ "qemu.create" \notin Range(calls)

C3_Witness ==
    /\ vmpc = "ret"
    /\ existing_vms.got
    /\ vm.id \in existing_vms.vmids
    /\ vm.fields = RequiredFields
    /\ vmWhy = "duplicate"
    /\ calls = <<"qemu.get">>

\* C4: a spec without one of id, name, memory, cores makes create_vm return
\* failure with the missing-field rejection before any request has been
\* sent to the hypervisor.
C4_MissingFieldBeforeNetwork ==
    (vmpc = "ret" /\ vm.fields # RequiredFields) =>
        /\ ~vmRet
        /\ vmWhy = "missing"
        /\ calls = <<>>

\* C5: when a requested disk import has failed (the request raised, its task
\* failed or timed out, or no unused disk showed up), create_vm returns
\* failure and never submits the create request.
ImportFailed == importOutcome \in {"raised", "taskfailed", "timeout", "nodisk"}

C5_ImportFailureAborts ==
    ImportFailed =>
        /\ "qemu.create" \notin Range(calls)
        /\ vmpc = "ret" => ~vmRet

\* C6: _wait_for_task returns True exactly when a poll issued before the
\* timeout ran out saw 'stopped' with 'OK'; it returns False at the poll
\* that sees 'stopped' with another exit status; it returns False, without
\* polling again, when the timeout runs out with no 'stopped' seen.
SawStopped(st) == \E k \in 1..Len(observed) : observed[k].st = st

C6_WaitForTaskResult ==
    /\ \A k \in 1..Len(observed) :
         /\ observed[k].at < timeout
         /\ observed[k].st.status = "stopped" =>
              (k = Len(observed) /\ wpc = "ret")
    /\ wpc = "ret" =>
         /\ waitRet <=> SawStopped(TaskOK)
         /\ (~SawStopped(TaskOK) /\ ~SawStopped(TaskErr)) =>
              (~waitRet /\ elapsed >= timeout)
    /\ SawStopped(TaskErr) => (wpc = "ret" /\ ~waitRet)

C6_Witness ==
    /\ wpc = "ret"
    /\ waitRet
    /\ Len(observed) = 4
    /\ \A k \in 1..3 : observed[k].st = TaskRunning
    /\ observed[4].st = TaskOK

\* C7: when push_image returns, disconnect has run exactly once for each
\* connect, on every way out, and neither the SSH session nor the SFTP
\* channel is left open.
C7_CloseOncePerOpen ==
    /\ disconnects <= connects
    /\ connects <= 1
    /\ ppc = "done" =>
         /\ disconnects = connects
         /\ ssh # "connected"
         /\ sftp # "open"

C7_Witness ==
    /\ ppc = "done"
    /\ connects = 1 /\ disconnects = 1
    /\ ssh = "closed" /\ sftp = "None"
    /\ ~pushErr

\* C8: list_remote_images called without an open channel fails with a
\* not-connected error its caller sees, instead of returning a listing.
C8_NotConnectedVisible ==
    (lastCall.op = "list_remote_images" /\ sftp = "None") => lastCall.raised

C10_UploadLoop ==
    /\ Len(uploads) <= Len(new_images)
    /\ \A k \in 1..Len(uploads) :
          /\ uploads[k].file = new_images[k]
          /\ uploads[k].file \in uploads[k].before =>
               (~uploads[k].put /\ uploads[k].after = uploads[k].before)
    /\ ppc = "upload" => Len(uploads) = upi - 1
    /\ ppc = "done" => Len(uploads) = Len(new_images)

C10_Witness ==
    /\ ppc = "done"
    /\ Len(new_images) = 2
    /\ Len(uploads) = 2
    /\ ~uploads[1].ok
    /\ uploads[2].ok

\* C11: the diff push_image computes is the local listing without the names
\* that occur in the remote listing, in local-listing order; it is empty
\* when the two listings are equal and is the local listing when the remote
\* listing is empty.
DiffComputed == ppc \in {"upload", "exit"} \/ (ppc = "done" /\ connects > 0)

IndexOf(q, x) == CHOOSE k \in 1..Len(q) : q[k] = x

C11_DiffIsLocalMinusRemote ==
    DiffComputed =>
        /\ Range(new_images) = Range(local_images) \ Range(remote_images)
        /\ \A a, b \in 1..Len(new_images) :
             a < b => IndexOf(local_images, new_images[a])
                        < IndexOf(local_images, new_images[b])
        /\ remote_images = local_images => new_images = <<>>
        /\ remote_images = <<>> => new_images = local_images

C11_Witness ==
    /\ ppc = "upload"
    /\ local_images = <<FileA, FileB>>
    /\ remote_images = <<FileD, FileA>>
    /\ new_images = <<FileB>>

\* C12: a failed connection, or any other error, of the image transfer is
\* not fatal: push_image returns to main without raising or exiting, the
\* next thing main does is create_all_vms, which goes over all the VM specs,
\* and the exit status is decided by the failed create_vm calls alone.
PushFailed ==
    \/ pushErr
    \/ connects > 0 /\ sftp = "None"
    \/ \E k \in 1..Len(uploads) : ~uploads[k].ok

C12_PushFailureNotFatal ==
    /\ [](/\ ppc \notin {"idle", "returned"} => pc = "push"
          /\ CreateAllReturned =>
               /\ Len(attempted) = Len(vms)
               /\ exitCode = IF Failures(outcomes) # {} THEN 1 ELSE 0)
    /\ [][(pc = "push" /\ ppc = "done") =>
             (pc' = "loop" /\ idx' = 0 /\ vms' = vms /\ exitCode' = -1)]_vars

C12_Witness ==
    /\ CreateAllReturned
    /\ PushFailed
    /\ connects = 1 /\ disconnects = 1
    /\ sftp = "None" /\ ssh = "closed"
    /\ Len(vms) = 2
    /\ outcomes = <<TRUE, TRUE>>
    /\ exitCode = 0

\* C13: within create_vm the requests come in the order validation, disk
\* import (when asked for), create, post-create tagging; the create request
\* is sent only after the validation passed; the tags update is sent only
\* after the create task was seen to stop with exit status OK; create_vm
\* returns True only after a successful create task and a post-create step
\* that did not fail.
Called(c) == c \in Range(calls)

CallsInOrder(a, b) ==
    \A i, j \in 1..Len(calls) : (calls[i] = a /\ calls[j] = b) => i < j

Sent(c) == calls' = Append(calls, c)

C13_CreateVMStepOrder ==
    /\ [](/\ calls # <<>> => calls[1] = "qemu.get"
          /\ \A i, j \in 1..Len(calls) : calls[i] = calls[j] => i = j
          /\ CallsInOrder("qemu.get", "importdisk.create")
          /\ CallsInOrder("importdisk.create", "config.get")
          /\ CallsInOrder("importdisk.create", "qemu.create")
          /\ CallsInOrder("config.get", "qemu.create")
          /\ CallsInOrder("qemu.create", "config.put")
          /\ (Called("importdisk.create") \/ Called("qemu.create")) =>
               /\ existing_vms.got
               /\ vm.id \notin existing_vms.vmids
               /\ vm.fields = RequiredFields
          /\ Called("importdisk.create") => vm.disk = "import_img"
          /\ Called("config.put") => (Called("qemu.create") /\ vm.tags)
          /\ (vmpc = "ret" /\ vmRet) =>
               /\ vmWhy = "created"
               /\ Called("qemu.create")
               /\ vm.tags => Called("config.put"))
    /\ [][/\ Sent("qemu.create") => vmpc = "create"
          /\ (vmpc' = "create" /\ vmpc # "create") =>
               vmpc \in {"prepare", "import_wait"}
          /\ (vmpc' = "prepare" /\ vmpc # "prepare") => vmpc = "validate"
          /\ Sent("config.put") => vmpc = "post"
          /\ (vmpc' = "post" /\ vmpc # "post") =>
               /\ vmpc = "create_wait"
               /\ waitFor = "create"
               /\ wpc = "ret"
               /\ waitRet
               /\ observed[Len(observed)].st = TaskOK
               /\ Called("qemu.create")
          /\ (vmpc' = "ret" /\ vmpc # "ret" /\ vmRet') => vmpc = "post"]_vars

C13_Witness ==
    /\ vmpc = "ret"
    /\ vmRet
    /\ vm.disk = "import_img" /\ vm.tags
    /\ importOutcome = "ok"
    /\ calls = <<"qemu.get", "importdisk.create", "config.get",
                 "qemu.create", "config.put">>

====
